---- MODULE Spec2Model ----
(***************************************************************************)
(* Intel HEX reader and writer of src/ihex.c: checksum, ihex_write and     *)
(* ihex_read, modelled as one state machine.  A scenario either encodes a  *)
(* buffer and decodes the emitted text again, or decodes a given text.     *)
(*                                                                         *)
(* unsigned int values are 32 bits wide.  They are kept as records         *)
(* [hi, lo] of two 16-bit halves, with arithmetic modulo 2^32.             *)
(* Text is a sequence of one-character strings; the characters + - x X,    *)
(* which scanf's %x accepts as sign and prefix, the vertical tab, which    *)
(* scanf skips as white space, and the NUL character are outside the       *)
(* modelled alphabet of file contents.                                     *)
(***************************************************************************)
EXTENDS Integers, Sequences, FiniteSets, TLC

\* ------------------------------------------------------------------ bounds
MaxLen == 34
MaxLines == 2

\* ------------------------------------------------------- program constants
LineSize == 523
MaxChunk == 32
PageSize == 65536

\* --------------------------------------------------- unsigned int, 32 bits
U32(h, l) == [hi |-> h, lo |-> l]

U32OfNat(n) == [hi |-> (n \div 65536) % 65536, lo |-> n % 65536]

U32Add(a, b) ==
  LET s == a.lo + b.lo
  IN  [hi |-> (a.hi + b.hi + (s \div 65536)) % 65536, lo |-> s % 65536]

U32Sub(a, b) ==
  LET d == a.lo - b.lo
      borrow == IF d < 0 THEN 1 ELSE 0
  IN  [hi |-> (a.hi - b.hi - borrow + 65536) % 65536, lo |-> (d + 65536) % 65536]

U32Lt(a, b) == a.hi < b.hi \/ (a.hi = b.hi /\ a.lo < b.lo)

U32Gt(a, b) == U32Lt(b, a)

\* conversion of an unsigned int to int (the return type of ihex_read)
ToInt(a) ==
  IF a.hi >= 32768 THEN (a.hi - 65536) * 65536 + a.lo ELSE a.hi * 65536 + a.lo

\* #define HI(x), LO(x)
HI(x) == (x % 65536) \div 256

LO(x) == x % 256

\* --------------------------------------------------------------- characters
NUL == "NUL"

HexDigits == <<"0", "1", "2", "3", "4", "5", "6", "7",
               "8", "9", "A", "B", "C", "D", "E", "F">>

HexChar(d) == HexDigits[d + 1]

IsHex(c) == c \in {"0", "1", "2", "3", "4", "5", "6", "7", "8", "9",
                   "A", "B", "C", "D", "E", "F",
                   "a", "b", "c", "d", "e", "f"}

HexVal(c) ==
  CASE c = "0" -> 0  [] c = "1" -> 1  [] c = "2" -> 2  [] c = "3" -> 3
    [] c = "4" -> 4  [] c = "5" -> 5  [] c = "6" -> 6  [] c = "7" -> 7
    [] c = "8" -> 8  [] c = "9" -> 9
    [] c \in {"A", "a"} -> 10  [] c \in {"B", "b"} -> 11
    [] c \in {"C", "c"} -> 12  [] c \in {"D", "d"} -> 13
    [] c \in {"E", "e"} -> 14  [] c \in {"F", "f"} -> 15

\* isspace(): space, \t, \n, \r and form feed (vertical tab has no string)
IsSpace(c) == c \in {" ", "\t", "\n", "\r", "\f"}

\* ------------------------------------------------------ printf "%0wX"
RECURSIVE HexStr(_)
HexStr(n) ==
  IF n < 16 THEN <<HexChar(n)>> ELSE HexStr(n \div 16) \o <<HexChar(n % 16)>>

\* "%X" in place of "%02X": no padding
ZeroPadNone(s, w) == s

RECURSIVE ZeroPad(_, _)
ZeroPad(s, w) == IF Len(s) >= w THEN s ELSE ZeroPad(<<"0">> \o s, w)

FmtHex(n, w) == ZeroPad(HexStr(n), w)

\* ------------------------------------------------------------------ checksum
RECURSIVE SumBytes(_, _)
SumBytes(bytes, length) ==
  IF length = 0 THEN 0 ELSE SumBytes(bytes, length - 1) + bytes[length]

BitNot(x) == -x - 1

\* the complement without the + 1
checksumOnesComplement(bytes, length, chunk_len, chunk_addr, chunk_type) ==
  LET sum == chunk_len + LO(chunk_addr) + HI(chunk_addr) + chunk_type
             + SumBytes(bytes, length)
  IN  BitNot(sum) % 256

checksum(bytes, length, chunk_len, chunk_addr, chunk_type) ==
  LET sum == chunk_len + LO(chunk_addr) + HI(chunk_addr) + chunk_type
             + SumBytes(bytes, length)
      complement == BitNot(sum) + 1
  IN  complement % 256

\* ------------------------------------------------------------------- state
VARIABLES
  scenario,      \* "roundtrip": ihex_write then ihex_read; "decode": ihex_read
  start, end,    \* the address window [start, end), unsigned int
  src,           \* ihex_write's buf, a sequence: buf[k] is src[k + 1]
  file,          \* the contents of pFile, a sequence of characters
  \* ihex_write
  w_pc, cur_ela, chunk_start, w_chunk_len, w_i, w_ret,
  wcalls,        \* number of fprintf(pFile, ...) calls made so far
  wfail,         \* index of the first fprintf call that failed, 0 if none
  recs,          \* the records whose output was started, in order
  \* ihex_read
  r_pc, fpos, line, line_no, chunk_len, chunk_addr, chunk_type, r_i,
  greatest_addr, offset,
  dst,           \* ihex_read's buf, a sequence: buf[k] is dst[k + 1]
  r_ret, err_line, freed,
  seen,          \* the headers parsed so far, with the offset in effect
  stores         \* every store buf[index] = byte made, as [line, index]

wvars == <<w_pc, cur_ela, chunk_start, w_chunk_len, w_i, w_ret, wcalls, wfail, recs>>

rvars == <<r_pc, fpos, line, line_no, chunk_len, chunk_addr, chunk_type, r_i,
           greatest_addr, offset, dst, r_ret, err_line, freed, seen, stores>>

vars == <<scenario, start, end, src, file, wvars, rvars>>

\* -------------------------------------------------------------- ihex_write
\* cur_ela = 0 whatever the range
InitCurElaZero(e) == 0

\* line 128-133: cur_ela = 0, or -1 when end > 65535
InitCurEla(e) == IF e.hi > 0 THEN -1 ELSE 0

\* the chunk length without the test for the end of the 64k block
ChunkLenNoPageClamp(cs, e) ==
  LET rest == U32Sub(e, cs)
  IN  IF rest.hi > 0 \/ rest.lo > MaxChunk THEN MaxChunk ELSE rest.lo

\* line 138-149: the length of the chunk that starts at cs
ChunkLen(cs, e) ==
  LET rest == U32Sub(e, cs)
      capped == IF rest.hi > 0 \/ rest.lo > MaxChunk THEN MaxChunk ELSE rest.lo
  IN  IF cs.lo + capped > 65535 THEN PageSize - cs.lo ELSE capped

\* line 152: cur_ela != (chunk_start >> 16); cur_ela = -1 converts to 2^32 - 1,
\* which no page number equals
NeedEla(cur, cs) == cur # cs.hi

\* line 155-159: ":02000004%04X%02X\n"
ElaRecord(ela) ==
  <<":", "0", "2", "0", "0", "0", "0", "0", "4">>
    \o FmtHex(ela, 4)
    \o FmtHex(checksum(<<HI(ela), LO(ela)>>, 2, 2, 0, 4), 2)
    \o <<"\n">>

\* line 166: ":%02X%04X00"
DataHeader(len, cs) ==
  <<":">> \o FmtHex(len, 2) \o FmtHex(cs.lo, 4) \o <<"0", "0">>

\* line 168: "%02X" of buf[i]
DataByte(buf, k) == FmtHex(buf[k + 1], 2)

\* line 173: "%02X\n" of checksum(&buf[chunk_start - start], chunk_len, ...)
DataChecksum(buf, first, len, cs) ==
  FmtHex(checksum([k \in 1..len |-> buf[first + k]], len, len, cs.lo, 0), 2)
    \o <<"\n">>

\* line 183: ":00000001FF\n"
EofRecord == <<":", "0", "0", "0", "0", "0", "0", "0", "1", "F", "F", "\n">>

\* one fprintf(pFile, ...) call: it appends text, or fails and appends nothing
Fprintf(text, ok) ==
  /\ file' = IF ok THEN file \o text ELSE file
  /\ wcalls' = wcalls + 1
  /\ wfail' = IF ~ok /\ wfail = 0 THEN wcalls + 1 ELSE wfail

WReturn(v) == w_pc' = "w_done" /\ w_ret' = v

\* line 135-149, 152: the loop test, the chunk length
WChunk ==
  /\ w_pc = "w_loop"
  /\ U32Lt(chunk_start, end)
  /\ w_chunk_len' = ChunkLen(chunk_start, end)
  /\ w_pc' = IF NeedEla(cur_ela, chunk_start) THEN "w_ela" ELSE "w_hdr"
  /\ UNCHANGED <<cur_ela, chunk_start, w_i, w_ret, wcalls, wfail, recs, file>>
  /\ UNCHANGED <<scenario, start, end, src, rvars>>

\* line 135: the loop ends
WLoopExit ==
  /\ w_pc = "w_loop"
  /\ ~U32Lt(chunk_start, end)
  /\ w_pc' = "w_eof"
  /\ UNCHANGED <<cur_ela, chunk_start, w_chunk_len, w_i, w_ret, wcalls, wfail, recs, file>>
  /\ UNCHANGED <<scenario, start, end, src, rvars>>

\* line 153-164: the Extended Linear Address record
WEla ==
  /\ w_pc = "w_ela"
  /\ cur_ela' = chunk_start.hi
  /\ recs' = Append(recs, [type |-> 4, page |-> chunk_start.hi])
  /\ \E ok \in BOOLEAN :
       /\ Fprintf(ElaRecord(chunk_start.hi), ok)
       /\ IF ok THEN w_pc' = "w_hdr" /\ w_ret' = w_ret ELSE WReturn(-1)
  /\ UNCHANGED <<chunk_start, w_chunk_len, w_i>>
  /\ UNCHANGED <<scenario, start, end, src, rvars>>

\* line 166-167: the Data record's header; the result of fprintf is not tested
WHdr ==
  /\ w_pc = "w_hdr"
  /\ recs' = Append(recs, [type |-> 0, cs |-> chunk_start, len |-> w_chunk_len])
  /\ \E ok \in BOOLEAN : Fprintf(DataHeader(w_chunk_len, chunk_start), ok)
  /\ w_i' = U32Sub(chunk_start, start)
  /\ w_pc' = "w_data"
  /\ UNCHANGED <<cur_ela, chunk_start, w_chunk_len, w_ret>>
  /\ UNCHANGED <<scenario, start, end, src, rvars>>

\* line 167: i < chunk_start + chunk_len - start
WMoreData ==
  U32Lt(w_i, U32Sub(U32Add(chunk_start, U32OfNat(w_chunk_len)), start))

\* line 167-172: one data byte
WData ==
  /\ w_pc = "w_data"
  /\ WMoreData
  /\ \E ok \in BOOLEAN :
       /\ Fprintf(DataByte(src, ToInt(w_i)), ok)
       /\ IF ok THEN w_pc' = w_pc /\ w_ret' = w_ret ELSE WReturn(-1)
  /\ w_i' = U32Add(w_i, U32OfNat(1))
  /\ UNCHANGED <<cur_ela, chunk_start, w_chunk_len, recs>>
  /\ UNCHANGED <<scenario, start, end, src, rvars>>

\* line 173-180: the Data record's checksum, then chunk_start += chunk_len
WCks ==
  /\ w_pc = "w_data"
  /\ ~WMoreData
  /\ \E ok \in BOOLEAN :
       /\ Fprintf(DataChecksum(src, ToInt(U32Sub(chunk_start, start)),
                               w_chunk_len, chunk_start), ok)
       /\ IF ok
            THEN /\ w_pc' = "w_loop"
                 /\ w_ret' = w_ret
                 /\ chunk_start' = U32Add(chunk_start, U32OfNat(w_chunk_len))
            ELSE /\ WReturn(-1)
                 /\ chunk_start' = chunk_start
  /\ UNCHANGED <<cur_ela, w_chunk_len, w_i, recs>>
  /\ UNCHANGED <<scenario, start, end, src, rvars>>

\* line 183-189: the End Of File record
WEof ==
  /\ w_pc = "w_eof"
  /\ \E ok \in BOOLEAN :
       /\ Fprintf(EofRecord, ok)
       /\ WReturn(IF ok THEN 0 ELSE -1)
  /\ UNCHANGED <<cur_ela, chunk_start, w_chunk_len, w_i, recs>>
  /\ UNCHANGED <<scenario, start, end, src, rvars>>

\* --------------------------------------------------------------- ihex_read
\* line 49: static char line[523]; it starts zeroed and keeps, behind the
\* string read last, what longer strings left there.  k counts from 0.
CharAt(buf, k) == IF k < Len(buf) THEN buf[k + 1] ELSE NUL

RECURSIVE StrlenFrom(_, _)
StrlenFrom(buf, k) == IF CharAt(buf, k) = NUL THEN k ELSE StrlenFrom(buf, k + 1)

Strlen(buf) == StrlenFrom(buf, 0)

\* line 55: fgets(line, sizeof(line), pFile) reads through the next newline,
\* at most sizeof(line) - 1 characters; the number of characters it reads
RECURSIVE FgetsLen(_, _, _)
FgetsLen(f, pos, n) ==
  IF pos + n >= Len(f) \/ n >= LineSize - 1 THEN n
  ELSE IF f[pos + n + 1] = "\n" THEN n + 1
  ELSE FgetsLen(f, pos, n + 1)

Fgets(old, f, pos) ==
  LET n == FgetsLen(f, pos, 0)
  IN  SubSeq(f, pos + 1, pos + n) \o <<NUL>> \o SubSeq(old, n + 2, Len(old))

\* line 59-62: the test reads line[strlen(line)], the terminating NUL
StripCR(buf) ==
  LET n == Strlen(buf)
  IN  IF CharAt(buf, n) = "\r" THEN [buf EXCEPT ![n + 1] = NUL] ELSE buf

\* scanf's %x with a field width: white space is skipped, then at most
\* width hexadecimal digits are converted; no digit is a failure
RECURSIVE SkipSpace(_, _)
SkipSpace(buf, k) == IF IsSpace(CharAt(buf, k)) THEN SkipSpace(buf, k + 1) ELSE k

RECURSIVE ScanDigits(_, _, _, _, _)
ScanDigits(buf, k, width, n, acc) ==
  IF n < width /\ IsHex(CharAt(buf, k))
    THEN ScanDigits(buf, k + 1, width, n + 1, acc * 16 + HexVal(CharAt(buf, k)))
    ELSE [ok |-> n > 0, val |-> acc, next |-> k]

ScanHex(buf, k, width) == ScanDigits(buf, SkipSpace(buf, k), width, 0, 0)

\* line 65: sscanf(line, ":%02x%04x%02x", &chunk_len, &chunk_addr, &chunk_type)
ScanHeader(buf) ==
  LET f1 == ScanHex(buf, 1, 2)
      f2 == ScanHex(buf, f1.next, 4)
      f3 == ScanHex(buf, f2.next, 2)
  IN  IF CharAt(buf, 0) # ":" \/ ~f1.ok THEN [n |-> 0, len |-> 0, addr |-> 0, type |-> 0]
      ELSE IF ~f2.ok THEN [n |-> 1, len |-> f1.val, addr |-> 0, type |-> 0]
      ELSE IF ~f3.ok THEN [n |-> 2, len |-> f1.val, addr |-> f2.val, type |-> 0]
      ELSE [n |-> 3, len |-> f1.val, addr |-> f2.val, type |-> f3.val]

\* line 74, 84: sscanf(&line[9], "%04x", ...)
ScanExt(buf) == ScanHex(buf, 9, 4)

\* line 79: offset = esa * 16
SegOffset(esa) == U32OfNat(esa * 16)

\* the Extended Linear Address taken for a segment: ela * 16
LinOffsetAsSegment(ela) == U32OfNat(ela * 16)

\* line 89: offset = ela * 65536
LinOffset(ela) == U32(ela % 65536, 0)

\* line 92: i < strlen(line) - 1, the right side a size_t, which wraps at 0
LoopCond(buf, k) == Strlen(buf) = 0 \/ k < Strlen(buf) - 1

\* line 106, 111, 116: chunk_addr + offset, and + chunk_len
AbsAddr(addr, off) == U32Add(U32OfNat(addr), off)

AbsEnd(addr, off, len) == U32Add(AbsAddr(addr, off), U32OfNat(len))

\* the address of the record read last, greater or not
NewGreatestLast(g, addr, off, len) == AbsEnd(addr, off, len)

\* line 116-118
NewGreatest(g, addr, off, len) ==
  IF U32Gt(AbsEnd(addr, off, len), g) THEN AbsEnd(addr, off, len) ELSE g

\* line 119: chunk_addr + offset - start + (i - 9) / 2
StoreIndex(addr, off, s, k) ==
  U32Add(U32Sub(AbsAddr(addr, off), s), U32OfNat((k - 9) \div 2))

\* line 123
ReadResult(g, s) == ToInt(U32Sub(g, s))

\* a store at index is inside the caller's buffer of Len(dst) bytes
InBuffer(index) == index.hi = 0 /\ index.lo < Len(dst)

\* line 66-68 and the like: free(buf), the message with line_no, return(-1)
RFail ==
  /\ r_pc' = "r_failed"
  /\ freed' = TRUE
  /\ err_line' = line_no
  /\ r_ret' = -1

\* line 51, 53: fseek to the start, the locals' initial values
RCall ==
  /\ r_pc = "r_call"
  /\ scenario = "decode" \/ (w_pc = "w_done" /\ w_ret = 0 /\ wfail = 0)
  /\ fpos' = 0
  /\ line_no' = 0
  /\ greatest_addr' = U32(0, 0)
  /\ offset' = U32(0, 0)
  /\ r_pc' = "r_fgets"
  /\ UNCHANGED <<line, chunk_len, chunk_addr, chunk_type, r_i, dst, r_ret,
                 err_line, freed, seen, stores>>
  /\ UNCHANGED <<scenario, start, end, src, file, wvars>>

\* line 55-62: fgets reads a line
RFgets ==
  /\ r_pc = "r_fgets"
  /\ fpos < Len(file)
  /\ line' = StripCR(Fgets(line, file, fpos))
  /\ fpos' = fpos + FgetsLen(file, fpos, 0)
  /\ line_no' = line_no + 1
  /\ r_pc' = "r_header"
  /\ UNCHANGED <<chunk_len, chunk_addr, chunk_type, r_i, greatest_addr, offset,
                 dst, r_ret, err_line, freed, seen, stores>>
  /\ UNCHANGED <<scenario, start, end, src, file, wvars>>

\* line 55, 123: fgets finds the end of the file
REnd ==
  /\ r_pc = "r_fgets"
  /\ fpos >= Len(file)
  /\ r_ret' = ReadResult(greatest_addr, start)
  /\ r_pc' = "r_done"
  /\ UNCHANGED <<fpos, line, line_no, chunk_len, chunk_addr, chunk_type, r_i,
                 greatest_addr, offset, dst, err_line, freed, seen, stores>>
  /\ UNCHANGED <<scenario, start, end, src, file, wvars>>

\* line 65-92: the header, the address extension records, i = 9
RHeader ==
  /\ r_pc = "r_header"
  /\ LET h == ScanHeader(line)
         e == ScanExt(line)
     IN  IF h.n # 3 \/ (h.type \in {2, 4} /\ ~e.ok)
           THEN /\ RFail
                /\ UNCHANGED <<chunk_len, chunk_addr, chunk_type, r_i, offset, seen>>
           ELSE /\ chunk_len' = h.len
                /\ chunk_addr' = h.addr
                /\ chunk_type' = h.type
                /\ offset' = IF h.type = 2 THEN SegOffset(e.val)
                             ELSE IF h.type = 4 THEN LinOffset(e.val)
                             ELSE offset
                /\ seen' = Append(seen, [len |-> h.len, addr |-> h.addr,
                                         type |-> h.type, off |-> offset',
                                         pairs |-> LoopCond(line, 9)])
                /\ r_i' = 9
                /\ r_pc' = "r_loop"
                /\ UNCHANGED <<r_ret, err_line, freed>>
  /\ UNCHANGED <<fpos, line, line_no, greatest_addr, dst, stores>>
  /\ UNCHANGED <<scenario, start, end, src, file, wvars>>

\* line 92-120: one turn of the loop over the pairs of characters
RIter ==
  /\ r_pc = "r_loop"
  /\ LoopCond(line, r_i)
  /\ LET b == ScanHex(line, r_i, 2)
         index == StoreIndex(chunk_addr, offset, start, r_i)
     IN  IF ~b.ok
           THEN RFail /\ UNCHANGED <<r_i, greatest_addr, dst, stores>>
         ELSE IF chunk_type # 0 \/ (r_i - 9) \div 2 >= chunk_len
           THEN /\ r_pc' = "r_fgets"
                /\ UNCHANGED <<r_i, greatest_addr, dst, stores, r_ret, err_line, freed>>
         ELSE IF \/ U32Lt(AbsAddr(chunk_addr, offset), start)
                 \/ U32Gt(AbsEnd(chunk_addr, offset, chunk_len), end)
           THEN RFail /\ UNCHANGED <<r_i, greatest_addr, dst, stores>>
         ELSE /\ greatest_addr' = NewGreatest(greatest_addr, chunk_addr, offset, chunk_len)
              /\ stores' = stores \cup {[line |-> line_no, index |-> index]}
              /\ r_i' = r_i + 2
              /\ UNCHANGED <<r_ret, err_line, freed>>
              /\ IF InBuffer(index)
                   THEN /\ dst' = [dst EXCEPT ![index.lo + 1] = b.val]
                        /\ r_pc' = r_pc
                   \* a store outside the buffer: the run goes on, or it ends
                   ELSE /\ dst' = dst
                        /\ r_pc' \in {r_pc, "r_crashed"}
  /\ UNCHANGED <<fpos, line, line_no, chunk_len, chunk_addr, chunk_type, offset, seen>>
  /\ UNCHANGED <<scenario, start, end, src, file, wvars>>

\* line 92: the loop ends at the end of the line
RLoopEnd ==
  /\ r_pc = "r_loop"
  /\ ~LoopCond(line, r_i)
  /\ r_pc' = "r_fgets"
  /\ UNCHANGED <<fpos, line, line_no, chunk_len, chunk_addr, chunk_type, r_i,
                 greatest_addr, offset, dst, r_ret, err_line, freed, seen, stores>>
  /\ UNCHANGED <<scenario, start, end, src, file, wvars>>

\* ------------------------------------------------------------------ inputs
Unwritten == -1

\* ihex_write: the windows' starts, and the bytes a + b * k of a buffer
WriteStarts == {U32(0, 0), U32(0, 65504), U32(0, 65510), U32(0, 65535), U32(1, 0),
                U32(1, 65520), U32(65535, 65504)}

Patterns == {<<17, 17>>, <<250, 3>>}

Buffer(p, n) == [k \in 1..n |-> (p[1] + p[2] * (k - 1)) % 256]

\* ihex_read: windows, and the lines a file is made of
ReadWindows == {[s |-> U32(0, 0), e |-> U32(0, 4)],
                [s |-> U32(1, 0), e |-> U32(1, 4)]}

ReadLens == {0, 2}

ReadAddrs == {0, 3, 65535}

\* a Data record of declared length len, with t pairs after its header:
\* the data bytes 161, 162, ... and, when t = len + 1, the checksum
DataLine(len, addr, t) ==
  LET data == [k \in 1..len |-> 160 + k]
      pairs(k) == IF k <= len THEN FmtHex(data[k], 2)
                  ELSE FmtHex(checksum(data, len, len, addr, 0), 2)
      body[k \in 0..t] == IF k = 0 THEN <<>> ELSE body[k - 1] \o pairs(k)
  IN  <<":">> \o FmtHex(len, 2) \o FmtHex(addr, 4) \o <<"0", "0">>
        \o body[t] \o <<"\n">>

DataLines ==
  {DataLine(len, addr, t) : <<len, addr, t>> \in
     {x \in ReadLens \X ReadAddrs \X (0..3) : x[3] <= x[1] + 1}}

\* an Extended Segment Address record
EsaRecord(esa) ==
  <<":", "0", "2", "0", "0", "0", "0", "0", "2">>
    \o FmtHex(esa, 4)
    \o FmtHex(checksum(<<HI(esa), LO(esa)>>, 2, 2, 0, 2), 2)
    \o <<"\n">>

OtherLines ==
  { ElaRecord(1), ElaRecord(65535), EsaRecord(4096), EofRecord,
    \* an address extension record without its data
    <<":", "0", "2", "0", "0", "0", "0", "0", "4", "\n">>,
    \* a header that is no hexadecimal number
    <<":", "0", "G", "0", "0", "0", "0", "0", "0", "\n">>,
    \* a header of short fields with white space between them
    <<":", "\f", "1", " ", "3", "\t", "0", " ", "A", "1", " ", "5", "B", "\n">>,
    \* a data pair that is no hexadecimal number
    <<":", "0", "1", "0", "0", "0", "0", "0", "0", "G", "G", "5", "B", "\n">>,
    \* a line that ends in carriage return and line feed
    <<":", "0", "1", "0", "0", "0", "0", "0", "0", "1", "1", "E", "E", "\r", "\n">>,
    \* a line without its newline
    <<":", "0", "1", "0", "0", "0", "0", "0", "0", "1", "1", "E", "E">> }

LinePool == DataLines \cup OtherLines

RECURSIVE Flatten(_)
Flatten(ls) == IF ls = <<>> THEN <<>> ELSE Head(ls) \o Flatten(Tail(ls))

Files == {Flatten(ls) : ls \in UNION {[1..n -> LinePool] : n \in 0..MaxLines}}

\* -------------------------------------------------------------------- Init
InitWriter(active) ==
  /\ w_pc = IF active THEN "w_loop" ELSE "w_off"
  /\ cur_ela = InitCurEla(end)
  /\ chunk_start = start
  /\ w_chunk_len = 0
  /\ w_i = U32(0, 0)
  /\ w_ret = 0
  /\ wcalls = 0
  /\ wfail = 0
  /\ recs = <<>>

InitReader(size) ==
  /\ r_pc = "r_call"
  /\ fpos = 0
  /\ line = <<>>
  /\ line_no = 0
  /\ chunk_len = 0
  /\ chunk_addr = 0
  /\ chunk_type = 0
  /\ r_i = 0
  /\ greatest_addr = U32(0, 0)
  /\ offset = U32(0, 0)
  /\ dst = [k \in 1..size |-> Unwritten]
  /\ r_ret = 0
  /\ err_line = 0
  /\ freed = FALSE
  /\ seen = <<>>
  /\ stores = {}

InitRoundtrip ==
  /\ scenario = "roundtrip"
  /\ \E s \in WriteStarts, n \in 1..MaxLen, p \in Patterns :
       /\ U32Lt(s, U32Add(s, U32OfNat(n)))
       /\ start = s
       /\ end = U32Add(s, U32OfNat(n))
       /\ src = Buffer(p, n)
       /\ InitReader(n)
  /\ file = <<>>
  /\ InitWriter(TRUE)

InitDecode ==
  /\ scenario = "decode"
  /\ \E w \in ReadWindows, f \in Files :
       /\ start = w.s
       /\ end = w.e
       /\ file = f
       /\ InitReader(ToInt(U32Sub(w.e, w.s)))
  /\ src = <<>>
  /\ InitWriter(FALSE)

Init == InitRoundtrip \/ InitDecode

Next ==
  \/ WChunk \/ WLoopExit \/ WEla \/ WHdr \/ WData \/ WCks \/ WEof
  \/ RCall \/ RFgets \/ REnd \/ RHeader \/ RIter \/ RLoopEnd

Spec == Init /\ [][Next]_vars

\* --------------------------------------------- reading the text of a file
\* the lines of f in order, each without its newline; a last line that no
\* newline ends is kept when keepLast
Range(q) == {q[k] : k \in 1..Len(q)}

Newlines(f) == {k \in 1..Len(f) : f[k] = "\n"}

LineStarts(f, keepLast) ==
  {s \in {1} \cup {k + 1 : k \in Newlines(f)} :
     /\ s <= Len(f)
     /\ keepLast \/ \E k \in Newlines(f) : k >= s}

LineAt(f, s) ==
  LET ends == {k \in Newlines(f) : k >= s} \cup {Len(f) + 1}
      e == CHOOSE k \in ends : \A m \in ends : k <= m
  IN  SubSeq(f, s, e - 1)

LinesOf(f, keepLast) ==
  LET starts == LineStarts(f, keepLast)
  IN  [n \in 1..Cardinality(starts) |->
         LineAt(f, CHOOSE s \in starts : Cardinality({t \in starts : t <= s}) = n)]

\* the values of the pairs of hexadecimal digits of l from position k on
RECURSIVE PairVals(_, _)
PairVals(l, k) ==
  IF k + 1 <= Len(l) /\ IsHex(l[k]) /\ IsHex(l[k + 1])
    THEN <<HexVal(l[k]) * 16 + HexVal(l[k + 1])>> \o PairVals(l, k + 2)
    ELSE <<>>

RECURSIVE SeqSum(_)
SeqSum(q) == IF q = <<>> THEN 0 ELSE Head(q) + SeqSum(Tail(q))

NatOf(u) == u.hi * 65536 + u.lo

Min(a, b) == IF a < b THEN a ELSE b

\* ------------------------------------------------- the claims' vocabulary
WriteOk == scenario = "roundtrip" /\ w_pc = "w_done" /\ wfail = 0

DataRecs == {j \in 1..Len(recs) : recs[j].type = 0}

ElaRecs == {j \in 1..Len(recs) : recs[j].type = 4}

PrevData(j) == CHOOSE k \in DataRecs : k < j /\ \A m \in DataRecs : m < j => m <= k

ElaBefore(j) == j > 1 /\ recs[j - 1].type = 4

\* Data record j is the first one of a page the range crosses into
EntersPage(j) ==
  (\E k \in DataRecs : k < j) /\ recs[PrevData(j)].cs.hi # recs[j].cs.hi

\* the same, or Data record j is the first one and end > 65535
FirstOrEnters(j) ==
  IF \E k \in DataRecs : k < j THEN EntersPage(j) ELSE U32Gt(end, U32(0, 65535))

\* an Extended Linear Address record, naming the page, stands immediately
\* before Data record j exactly when needs(j); each one has a Data record
\* immediately behind it
ElaPlacement(needs(_)) ==
  /\ \A j \in DataRecs :
       /\ ElaBefore(j) <=> needs(j)
       /\ ElaBefore(j) => recs[j - 1].page = recs[j].cs.hi
  /\ \A j \in ElaRecs :
       /\ j < Len(recs) => recs[j + 1].type = 0
       /\ w_pc = "w_done" => j < Len(recs)

ExampleRun ==
  /\ WriteOk
  /\ start = U32(0, 0)
  /\ src = <<17, 34, 51>>

IsData(j) == seen[j].type = 0

IsDataWithByte(j) == seen[j].type = 0 /\ seen[j].len >= 1 /\ seen[j].pairs

\* the greatest address + offset + length, modulo 2^32, over the records
\* 1..j of the file that counts(_) selects; 0 without one
RECURSIVE MaxEnd(_, _)
MaxEnd(counts(_), j) ==
  IF j = 0 THEN U32(0, 0)
  ELSE LET m == MaxEnd(counts, j - 1)
           e == U32Add(U32Add(U32OfNat(seen[j].addr), seen[j].off),
                       U32OfNat(seen[j].len))
       IN  IF counts(j) /\ U32Lt(m, e) THEN e ELSE m

OutOfWindow(j) ==
  LET a == U32Add(U32OfNat(seen[j].addr), seen[j].off)
  IN  U32Lt(a, start) \/ ~U32Lt(a, end)

LineOver(j) == j < line_no \/ r_pc \notin {"r_header", "r_loop"}

\* a line as the format has it: ':', eight hexadecimal digits LLAAAATT, then
\* at least LL data pairs and a checksum pair
ValidHeader(l) ==
  /\ Len(l) >= 9
  /\ l[1] = ":"
  /\ \A k \in 2..9 : IsHex(l[k])

Truncated(l) == Len(PairVals(l, 10)) < HexVal(l[2]) * 16 + HexVal(l[3]) + 1

Malformed(l) == ~ValidHeader(l) \/ Truncated(l)

BadLines == {k \in 1..Len(LinesOf(file, TRUE)) : Malformed(LinesOf(file, TRUE)[k])}

\* ------------------------------------------------------------------ claims

\* C1: encoding a buffer for [start, end) and decoding the emitted text into
\* a buffer of the same size over the same window succeeds, leaves every byte
\* of the destination equal to the source and returns end - start.
C1_RoundTrip ==
  scenario = "roundtrip" =>
    /\ (w_pc = "w_done" /\ wfail = 0 => w_ret = 0)
    /\ r_pc \notin {"r_failed", "r_crashed"}
    /\ (r_pc = "r_done" =>
          /\ dst = src
          /\ r_ret = NatOf(U32Sub(end, start))
          /\ r_ret = Len(src))

\* C1, its case: a range of more than one chunk that crosses a 64 KiB
\* boundary has been written and read back.
C1_Witness ==
  /\ scenario = "roundtrip"
  /\ r_pc = "r_done"
  /\ start.hi # U32Sub(end, U32OfNat(1)).hi
  /\ Len(src) > MaxChunk
  /\ dst = src

\* C2: a Data record whose address + offset lies outside [start, end) makes
\* ihex_read fail with -1 at that record, and no byte of it or of a later
\* record is stored.  Stated for the records of declared length >= 1 in files
\* whose lines are all well formed, the part of the claim that neither a
\* truncated line nor an empty record decides.
C2_RangeEnforced ==
  BadLines = {} =>
    \A j \in 1..Len(seen) :
      IsData(j) /\ seen[j].len >= 1 /\ OutOfWindow(j) =>
        /\ LineOver(j) => r_pc = "r_failed" /\ r_ret = -1 /\ err_line = j
        /\ \A st \in stores : st.line < j

\* C3 as claimed: a successful ihex_read returns M - start, M the greatest
\* record address + offset + record length over all Data records, 0 without.
\* Stated for files whose lines are all well formed.
C3_Original ==
  r_pc = "r_done" /\ BadLines = {} =>
    r_ret = ToInt(U32Sub(MaxEnd(IsData, Len(seen)), start))

\* C3 as amended: M is taken, modulo 2^32, over the Data records of declared
\* length >= 1 whose line carries at least one pair after the header; a Data
\* record of length 0 or without a pair does not count.  The value returned is
\* (M - start) modulo 2^32 as an int.
C3_ReturnValue ==
  r_pc = "r_done" =>
    r_ret = ToInt(U32Sub(MaxEnd(IsDataWithByte, Len(seen)), start))

\* C3, its case: a file was decoded in which a Data record that does not
\* count follows one that does.
C3_Witness ==
  /\ r_pc = "r_done"
  /\ scenario = "decode"
  /\ \E j, k \in 1..Len(seen) :
       /\ IsData(j) /\ ~IsDataWithByte(j)
       /\ IsDataWithByte(k) /\ j > k
  /\ r_ret > 0

\* C4: when line k is the first line with an invalid header or with fewer
\* than LL data pairs and a checksum pair after it, ihex_read fails with -1,
\* and the line it reports is k (or an earlier line it failed at).
C4_MalformedLine ==
  scenario = "decode" /\ r_pc \in {"r_done", "r_failed"} /\ BadLines # {} =>
    /\ r_pc = "r_failed"
    /\ r_ret = -1
    /\ \A k \in BadLines : err_line <= k

\* C5: once a write to the stream has failed, ihex_write makes no further
\* write and returns -1, never 0.
C5_WriteFailureAborts ==
  wfail # 0 =>
    /\ wcalls = wfail
    /\ w_pc = "w_done" => w_ret = -1

\* C6 as claimed: an Extended Linear Address record stands immediately
\* before a Data record exactly when that Data record is the first of a page
\* the range enters by crossing a multiple of 65536; a range within one page
\* gets none.
C6_Original ==
  scenario = "roundtrip" /\ wfail = 0 => ElaPlacement(EntersPage)

\* C6 as amended: as claimed, and one more Extended Linear Address record
\* immediately before the first Data record whenever end > 65535, also when
\* the whole range lies in one page; none at all when end <= 65535.
C6_PageRecords ==
  scenario = "roundtrip" /\ wfail = 0 =>
    /\ ElaPlacement(FirstOrEnters)
    /\ (~U32Gt(end, U32(0, 65535)) => ElaRecs = {})

\* C6, its case: a range within one page was written with an Extended Linear
\* Address record.
C6_Witness ==
  /\ WriteOk
  /\ start.hi = U32Sub(end, U32OfNat(1)).hi
  /\ ElaRecs # {}
  /\ DataRecs # {}

\* C7: every record emitted (Extended Linear Address, Data, End Of File)
\* has length + address bytes + type + data bytes + checksum = 0 mod 256,
\* taken from the fields as printed, and carries as many data bytes as its
\* length field says.
C7_ChecksumValid ==
  scenario = "roundtrip" =>
    \A l \in {x \in Range(LinesOf(file, FALSE)) : x # <<>> /\ x[1] = ":"} :
      LET b == PairVals(l, 2)
      IN  /\ Len(l) = 1 + 2 * Len(b)
          /\ Len(b) = b[1] + 5
          /\ SeqSum(b) % 256 = 0

\* C7, its case: records of all three types were written.
C7_Witness ==
  /\ WriteOk
  /\ w_ret = 0
  /\ ElaRecs # {}
  /\ Cardinality(DataRecs) >= 2

\* C8: every Data record has 1 <= length <= 32, lies within one 64 KiB page,
\* and is as long as the 32-byte limit, the end of the range and the end of
\* the page allow.
C8_Chunking ==
  \A j \in DataRecs :
    LET c == recs[j]
        last == U32Add(c.cs, U32OfNat(c.len - 1))
    IN  /\ 1 <= c.len /\ c.len <= 32
        /\ last.hi = c.cs.hi
        /\ ~U32Lt(last, c.cs)
        /\ c.len = Min(32, Min(NatOf(U32Sub(end, c.cs)), 65536 - c.cs.lo))

\* C8, its case: a chunk of 32 bytes ends on the last byte of a page and the
\* next chunk starts the next page.
C8_Witness ==
  /\ WriteOk
  /\ \E j, k \in DataRecs :
       /\ recs[j].len = 32 /\ recs[j].cs.lo + 32 = 65536
       /\ k > j /\ recs[k].cs.lo = 0

\* C9 as claimed: buffer 0x11 0x22 0x33 for [0, 3) is emitted as
\* ":03000000112233CB" and ":00000001FF".
C9_Original ==
  ExampleRun =>
    file = <<":", "0", "3", "0", "0", "0", "0", "0", "0",
             "1", "1", "2", "2", "3", "3", "C", "B", "\n",
             ":", "0", "0", "0", "0", "0", "0", "0", "1", "F", "F", "\n">>

\* C9 as amended: the Data record's checksum is 0x97; the text is
\* ":0300000011223397" and ":00000001FF", and ihex_write returns 0.
C9_Example ==
  ExampleRun =>
    /\ file = <<":", "0", "3", "0", "0", "0", "0", "0", "0",
                "1", "1", "2", "2", "3", "3", "9", "7", "\n",
                ":", "0", "0", "0", "0", "0", "0", "0", "1", "F", "F", "\n">>
    /\ w_ret = 0

\* C9, its case: the example buffer has been written.
C9_Witness == ExampleRun /\ Len(file) = 30

\* C10: every store into the destination buffer is at an index i with
\* 0 <= i < end - start.
C10_StoresInBuffer ==
  \A st \in stores : st.index.hi = 0 /\ st.index.lo < NatOf(U32Sub(end, start))

====
